---- MODULE Spec2Model ----
(***************************************************************************)
(* NEARWEEK MCP server, HTTP mode: the auth gate (authMiddleware and       *)
(* validateApiKey), the session table (SessionManager) and the /mcp and    *)
(* /rpc handlers (createMcpHandler, createRpcHandler).                     *)
(*                                                                         *)
(* Node runs the handlers on one thread: every action below is the code    *)
(* that runs between two awaits of one request, and requests interleave    *)
(* only at their awaits.  The transport of a session is the SDK's          *)
(* StreamableHTTPServerTransport, built with the options createTransport   *)
(* gives it: it generates its identifier while it handles the initialize   *)
(* request, keeps it from then on (close() does not clear it), refuses     *)
(* every other request that does not name it, and fires on-closed for a    *)
(* DELETE before it closes itself.                                         *)
(***************************************************************************)
EXTENDS Integers, Sequences, FiniteSets, TLC

\* Number of HTTP requests the model follows from arrival to completion.
MaxReqs == 3

Reqs == 1..MaxReqs

\* JavaScript undefined, for the optional strings of a request.
Undefined == "undefined"

\* !!s for a string-or-undefined value.
Truthy(s) == s # Undefined /\ s # ""

NoHeader == [present |-> FALSE, head |-> "", tail |-> ""]

\* A header value split at index 7: head is its first seven characters
\* (all of it when shorter), tail is value.substring(7).
Header(h, t) == [present |-> TRUE, head |-> h, tail |-> t]

\* The Authorization headers and apiKey query parameters requests carry.
AuthHeaders ==
    { NoHeader, Header("Bearer ", ""), Header("Bearer ", "k1"),
      Header("Basic a", "1"), Header("bearer ", "k1") }

QueryKeys == { Undefined, "", "k2" }

\* authHeader?.startsWith('Bearer ')
StartsWithBearer(h) == h.present /\ h.head = "Bearer "

\* The key authMiddleware takes from the Authorization header.
HeaderKey(h) == IF StartsWithBearer(h) THEN h.tail ELSE Undefined

\* The fallback to the query parameter is taken.
UsesQueryKey(h, q) == ~Truthy(HeaderKey(h)) /\ Truthy(q)

\* The apiKey authMiddleware ends up with (undefined or '' when none).
ExtractApiKey(h, q) ==
    IF UsesQueryKey(h, q) THEN q ELSE HeaderKey(h)

\* The mutant of MissingApiKey: only an undefined key counts as missing.
MissingApiKeyUndefinedOnly(apiKey) == apiKey = Undefined

\* if (!apiKey): no key was found in either place.
MissingApiKey(apiKey) == ~Truthy(apiKey)

\* What the authority's POST /api/validate can do to one call.
\*   threw: fetch rejected; ok: response.ok; json: how the body parses
\*   ("object", "null", "malformed"); valid: the body's valid field.
AuthorityReplies ==
    { [threw |-> TRUE,  ok |-> FALSE, json |-> "object",    valid |-> "undefined"],
      [threw |-> FALSE, ok |-> FALSE, json |-> "object",    valid |-> "true"],
      [threw |-> FALSE, ok |-> TRUE,  json |-> "malformed", valid |-> "undefined"],
      [threw |-> FALSE, ok |-> TRUE,  json |-> "null",      valid |-> "undefined"],
      [threw |-> FALSE, ok |-> TRUE,  json |-> "object",    valid |-> "undefined"],
      [threw |-> FALSE, ok |-> TRUE,  json |-> "object",    valid |-> "false"],
      [threw |-> FALSE, ok |-> TRUE,  json |-> "object",    valid |-> "string:true"],
      [threw |-> FALSE, ok |-> TRUE,  json |-> "object",    valid |-> "true"] }

\* Observation: the authority answered a success status with a body
\* {valid: true}.
AuthorityAccepts(reply) ==
    ~reply.threw /\ reply.ok /\ reply.json = "object" /\ reply.valid = "true"

\* The mutant of ValidateApiKey: an unreachable or failing authority lets
\* the key through (allow on error).
ValidateApiKeyAllowOnError(reply) ==
    IF reply.threw \/ reply.json # "object" THEN TRUE
    ELSE reply.ok /\ reply.valid = "true"

\* The mutant of ValidateApiKey: the valid field is tested for truthiness
\* instead of being compared with true.
ValidateApiKeyTruthyValid(reply) ==
    IF reply.threw THEN FALSE
    ELSE IF ~reply.ok THEN FALSE
    ELSE IF reply.json # "object" THEN FALSE
    ELSE reply.valid \in {"true", "string:true"}

\* validateApiKey: false on a throw anywhere in the try block, false on
\* !response.ok, else result.valid === true.
ValidateApiKey(reply) ==
    IF reply.threw THEN FALSE
    ELSE IF ~reply.ok THEN FALSE
    ELSE IF reply.json # "object" THEN FALSE
    ELSE reply.valid = "true"

\* The mutant of CallsNext: the return after the 403 response is missing.
CallsNextAlways(isValid) == TRUE

\* authMiddleware after validateApiKey: it returns after the 403 response
\* when the key is not valid and calls next() otherwise.
CallsNext(isValid) == isValid

\* ------------------------------------------------------------------------
\* The session table: Map<string, ServerSession>.  A ServerSession object
\* {server, transport, nearClient} is named by the request that built it.

\* getSession found nothing.
NoSession == 0

EmptyMap == [k \in {} |-> NoSession]

MapHas(m, k) == k \in DOMAIN m

MapGet(m, k) == IF k \in DOMAIN m THEN m[k] ELSE NoSession

MapSet(m, k, v) == [x \in DOMAIN m \cup {k} |-> IF x = k THEN v ELSE m[x]]

MapDelete(m, k) == [x \in DOMAIN m \ {k} |-> m[x]]

\* The value of the n-th call of randomUUID().
UUID(n) == "uuid-" \o ToString(n)

\* An identifier a client made up: no randomUUID() call returns it.
ClientProposedId == "client-proposed"

\* The request shapes the /mcp route receives: a POST whose body is the
\* initialize request, any other POST, a GET and a DELETE.
Kinds == { "initialize", "message", "stream", "terminate" }

Routes == { "rpc", "mcp" }

\* ------------------------------------------------------------------------
\* Strings.  A string the code takes apart is the sequence of its
\* characters, so that startsWith, endsWith, replace, URL parsing and
\* parseInt are computed on it.

\* s.startsWith(p)
StartsWith(s, p) == Len(s) >= Len(p) /\ SubSeq(s, 1, Len(p)) = p

\* s.endsWith(p)
EndsWith(s, p) ==
    Len(s) >= Len(p) /\ SubSeq(s, Len(s) - Len(p) + 1, Len(s)) = p

\* s.indexOf(p), counted from 1; 0 when p does not occur.
IndexOf(s, p) ==
    LET hits == { i \in 1..(Len(s) - Len(p) + 1) :
                    SubSeq(s, i, i + Len(p) - 1) = p }
    IN  IF hits = {} THEN 0 ELSE CHOOSE i \in hits : \A j \in hits : i <= j

\* s.replace(p, w) with a string pattern: the first occurrence of p is
\* replaced, the string is returned as it is when there is none.
Replace(s, p, w) ==
    LET i == IndexOf(s, p)
    IN  IF i = 0 THEN s
        ELSE SubSeq(s, 1, i - 1) \o w \o SubSeq(s, i + Len(p), Len(s))

\* 'near://account/'
AccountPrefix ==
    << "n", "e", "a", "r", ":", "/", "/", "a", "c", "c", "o", "u", "n",
       "t", "/" >>

\* 'near://blocks/latest'
BlocksPrefix ==
    << "n", "e", "a", "r", ":", "/", "/", "b", "l", "o", "c", "k", "s",
       "/", "l", "a", "t", "e", "s", "t" >>

\* 'near://contract/'
ContractPrefix ==
    << "n", "e", "a", "r", ":", "/", "/", "c", "o", "n", "t", "r", "a",
       "c", "t", "/" >>

\* '/readme'
ReadmeSuffix ==
    << "/", "r", "e", "a", "d", "m", "e" >>

\* 'near://network/status'
NetworkStatusUri ==
    << "n", "e", "a", "r", ":", "/", "/", "n", "e", "t", "w", "o", "r",
       "k", "/", "s", "t", "a", "t", "u", "s" >>

\* 'count', the name of the query parameter
CountParam ==
    << "c", "o", "u", "n", "t" >>

\* '10', the count when the query has none
DefaultCount ==
    << "1", "0" >>

\* The value of searchParams.get for a parameter the query does not have.
NoParam == << "null" >>

\* The query of new URL(uri): what follows the first '?'.
QueryOf(uri) ==
    LET i == IndexOf(uri, << "?" >>)
    IN  IF i = 0 THEN << >> ELSE SubSeq(uri, i + 1, Len(uri))

\* url.searchParams.get(key) on a query: the pairs are split at '&', each
\* pair at its first '=', and the value of the first pair named key is
\* returned.
RECURSIVE SearchParamsGet(_, _)
SearchParamsGet(query, key) ==
    IF query = << >> THEN NoParam
    ELSE LET amp == IndexOf(query, << "&" >>)
             pair == IF amp = 0 THEN query ELSE SubSeq(query, 1, amp - 1)
             rest == IF amp = 0 THEN << >>
                     ELSE SubSeq(query, amp + 1, Len(query))
             eq == IndexOf(pair, << "=" >>)
             k == IF eq = 0 THEN pair ELSE SubSeq(pair, 1, eq - 1)
             v == IF eq = 0 THEN << >> ELSE SubSeq(pair, eq + 1, Len(pair))
         IN  IF k = key THEN v ELSE SearchParamsGet(rest, key)

DecimalDigits == << "0", "1", "2", "3", "4", "5", "6", "7", "8", "9" >>

IsDigit(c) == \E i \in 1..Len(DecimalDigits) : DecimalDigits[i] = c

DigitValue(c) == (CHOOSE i \in 1..Len(DecimalDigits) : DecimalDigits[i] = c) - 1

\* The value of the longest run of digits s begins with, after acc.
RECURSIVE DigitsValue(_, _)
DigitsValue(s, acc) ==
    IF s = << >> \/ ~IsDigit(Head(s)) THEN acc
    ELSE DigitsValue(Tail(s), acc * 10 + DigitValue(Head(s)))

\* A JavaScript number: NaN or an integer.
NaN == [nan |-> TRUE, value |-> 0]

\* No count: the resource takes none.
NoCount == [nan |-> FALSE, value |-> 0]

Number(n) == [nan |-> FALSE, value |-> n]

\* parseInt(s, 10): an optional sign and the digits that follow it; NaN
\* when no digit follows.
ParseInt(s) ==
    LET signed == s # << >> /\ Head(s) \in {"-", "+"}
        body == IF signed THEN Tail(s) ELSE s
    IN  IF body = << >> \/ ~IsDigit(Head(body)) THEN NaN
        ELSE IF signed /\ Head(s) = "-" THEN Number(0 - DigitsValue(body, 0))
        ELSE Number(DigitsValue(body, 0))

\* What a resource URI resolves to: the family of the resource and the
\* parameter handed to its generator.
Resolved(family, accountId, count) ==
    [family |-> family, accountId |-> accountId, count |-> count]

\* handleResourcesRead of the /rpc facade, up to the generator it calls.
RpcResolve(uri) ==
    IF StartsWith(uri, AccountPrefix)
    THEN Resolved("account", Replace(uri, AccountPrefix, << >>), NoCount)
    ELSE IF StartsWith(uri, BlocksPrefix)
    THEN LET got == SearchParamsGet(QueryOf(uri), CountParam)
         IN  Resolved("blocks", << >>,
                      ParseInt(IF got = NoParam THEN DefaultCount ELSE got))
    ELSE IF StartsWith(uri, ContractPrefix) /\ EndsWith(uri, ReadmeSuffix)
    THEN Resolved("contract",
                  Replace(Replace(uri, ContractPrefix, << >>),
                          ReadmeSuffix, << >>), NoCount)
    ELSE IF uri = NetworkStatusUri
    THEN Resolved("network", << >>, NoCount)
    ELSE Resolved("unknown", << >>, NoCount)

\* The ReadResource handler of the MCP server, up to the generator it
\* calls.
SessionResolve(uri) ==
    IF StartsWith(uri, AccountPrefix)
    THEN Resolved("account", Replace(uri, AccountPrefix, << >>), NoCount)
    ELSE IF StartsWith(uri, BlocksPrefix)
    THEN LET got == SearchParamsGet(QueryOf(uri), CountParam)
         IN  Resolved("blocks", << >>,
                      ParseInt(IF got = NoParam THEN DefaultCount ELSE got))
    ELSE IF StartsWith(uri, ContractPrefix) /\ EndsWith(uri, ReadmeSuffix)
    THEN Resolved("contract",
                  Replace(Replace(uri, ContractPrefix, << >>),
                          ReadmeSuffix, << >>), NoCount)
    ELSE IF uri = NetworkStatusUri
    THEN Resolved("network", << >>, NoCount)
    ELSE Resolved("unknown", << >>, NoCount)

\* ------------------------------------------------------------------------
\* The tool families.

\* JavaScript null and undefined results are told from a result by t.
\*   t = "null":   the family does not handle the name
\*   t = "result": a tool result
\*   t = "throw":  an exception; error names its class and its message
\* calls lists the backing-client methods invoked, invoked the families
\* whose handler ran.
NoError == [class |-> "none", message |-> << >>]

Outcome(t, error, calls) ==
    [t |-> t, error |-> error, calls |-> calls, invoked |-> << >>]

\* The names handleBlockTools answers to, with the backing-client method
\* each of them calls.
BlockTools ==
    [ name \in {"near.getBlock", "near.getBlockChanges", "near.getChunk"} |->
        CASE name = "near.getBlock" -> "getBlock"
          [] name = "near.getBlockChanges" -> "getBlockChanges"
          [] name = "near.getChunk" -> "getChunk" ]

\* The names handleAccountTools answers to.
AccountTools ==
    [ name \in {"near.getAccount", "near.getAccountChanges",
                "near.getAccessKeys", "near.getAccessKey"} |->
        CASE name = "near.getAccount" -> "getAccount"
          [] name = "near.getAccountChanges" -> "getAccountChanges"
          [] name = "near.getAccessKeys" -> "getAccessKeys"
          [] name = "near.getAccessKey" -> "getAccessKey" ]

\* The names handleContractTools answers to.
ContractTools ==
    [ name \in {"near.viewFunction", "near.getTransaction", "near.rpc"} |->
        CASE name = "near.viewFunction" -> "viewFunction"
          [] name = "near.getTransaction" -> "getTransaction"
          [] name = "near.rpc" -> "genericRpc" ]

\* The names the three definition lists declare, in their order.
GetBlockToolDefinitions ==
    << "near.getBlock", "near.getBlockChanges", "near.getChunk" >>

GetAccountToolDefinitions ==
    << "near.getAccount", "near.getAccountChanges", "near.getAccessKeys",
       "near.getAccessKey" >>

GetContractToolDefinitions ==
    << "near.viewFunction", "near.getTransaction", "near.rpc" >>

\* What request.params.arguments can be for a schema: an object the
\* schema accepts, one it rejects (or none at all), and an accepted one
\* without the optional signer_id.
Arguments == { "valid", "invalid", "noSigner" }

\* schema.parse(arguments) throws its ZodError.
SchemaRejects(arguments) == arguments = "invalid"

ZodError ==
    [class |-> "ZodError", message |-> << "zod issues" >>]

\* The rejection of a backing-client call.
ClientError ==
    [class |-> "Error", message |-> << "backing client failed" >>]

SignerRequired ==
    [class |-> "Error",
     message |-> << "signer_id is required for transaction lookup" >>]

\* One branch of a family handler: the arguments are parsed, then the
\* backing client is called and awaited; nothing is caught.
ToolBranch(method, arguments, clientRejects) ==
    IF SchemaRejects(arguments) THEN Outcome("throw", ZodError, << >>)
    ELSE IF method = "getTransaction" /\ arguments = "noSigner"
    THEN Outcome("throw", SignerRequired, << >>)
    ELSE IF clientRejects THEN Outcome("throw", ClientError, << method >>)
    ELSE Outcome("result", NoError, << method >>)

\* A family handler: the branch of the name when the family has it, null
\* otherwise.
HandleTools(tools, name, arguments, clientRejects) ==
    IF name \in DOMAIN tools
    THEN ToolBranch(tools[name], arguments, clientRejects)
    ELSE Outcome("null", NoError, << >>)

Families ==
    [ block |-> BlockTools, account |-> AccountTools,
      contract |-> ContractTools ]

\* (await handleA(..)) ?? (await handleB(..)) ?? ...: the handlers of the
\* families in order are run until one returns something else than null
\* or throws.
RECURSIVE FirstNonNull(_, _, _, _, _)
FirstNonNull(order, name, arguments, clientRejects, invoked) ==
    IF order = << >>
    THEN [Outcome("null", NoError, << >>) EXCEPT !.invoked = invoked]
    ELSE LET out == HandleTools(Families[Head(order)], name, arguments,
                                clientRejects)
             ran == Append(invoked, Head(order))
         IN  IF out.t = "null"
             THEN FirstNonNull(Tail(order), name, arguments, clientRejects, ran)
             ELSE [out EXCEPT !.invoked = ran]

\* The mutant of RpcFamilyOrder: account tools are tried first.
RpcFamilyOrderAccountFirst == << "account", "block", "contract" >>

\* The order in which handleToolsCall of the /rpc facade tries the
\* families.
RpcFamilyOrder == << "block", "account", "contract" >>

\* The order in which the CallTool handler of the MCP server tries them.
SessionFamilyOrder == << "block", "account", "contract" >>

\* ------------------------------------------------------------------------
\* Requests and responses of the two surfaces.

\* JSON-RPC error codes.
MethodNotFound == -32601

InvalidParams == -32602

InternalError == -32603

\* params.uri when params has none.
NoUri == << "undefined" >>

\* A request: the parsed body (req.body for /rpc, the JSON-RPC message of
\* a session), and whether the backing client rejects the calls made for
\* it.  express.json() leaves the empty object as the body of a request
\* that has none: its method, params and id are undefined.
Request(method, paramsPresent, name, arguments, uri, id, clientRejects) ==
    [ method |-> method, paramsPresent |-> paramsPresent, name |-> name,
      arguments |-> arguments, uri |-> uri, id |-> id,
      clientRejects |-> clientRejects ]

NoResolution == Resolved("none", << >>, NoCount)

\* What became of a request.
\*   thrown:  the function threw error (inside the handler)
\*   http:    the status written, 0 when the function wrote none
\*   kind:    "result" or "error" for a JSON-RPC body, "none" without one
\*   message: the pieces the error message is put together from
\*   tools:   the names of result.tools
\*   calls, invoked, resolved: what ran for the request
Response(http, id, kind, code, message) ==
    [ thrown |-> FALSE, error |-> NoError,
      http |-> http, id |-> id, kind |-> kind, code |-> code,
      message |-> message, tools |-> << >>, calls |-> << >>,
      invoked |-> << >>, resolved |-> NoResolution ]

\* The function threw: no response object.
Thrown(error) ==
    [ Response(0, Undefined, "none", 0, << >>) EXCEPT
        !.thrown = TRUE, !.error = error ]

TypeError == [class |-> "TypeError", message |-> << "cannot read properties" >>]

\* The mutant of HandleToolsList: the block definitions are spread twice.
HandleToolsListBlockTwice(id) ==
    [ Response(0, id, "result", 0, << >>) EXCEPT
        !.tools = GetBlockToolDefinitions \o GetBlockToolDefinitions
                    \o GetAccountToolDefinitions
                    \o GetContractToolDefinitions ]

\* handleToolsList: the three definition lists, one after the other.
HandleToolsList(id) ==
    [ Response(0, id, "result", 0, << >>) EXCEPT
        !.tools = GetBlockToolDefinitions \o GetAccountToolDefinitions
                    \o GetContractToolDefinitions ]

\* The ListTools handler of the MCP server.
SessionListTools ==
    GetBlockToolDefinitions \o GetAccountToolDefinitions
        \o GetContractToolDefinitions

\* handleToolsCall: params.name and params.arguments are read (a
\* TypeError without params), the families are tried, and null from all
\* of them is answered with the error object for an unknown tool.
HandleToolsCall(q) ==
    IF ~q.paramsPresent THEN Thrown(TypeError)
    ELSE LET out == FirstNonNull(RpcFamilyOrder, q.name, q.arguments,
                                 q.clientRejects, << >>)
             ran == [calls |-> out.calls, invoked |-> out.invoked]
         IN  IF out.t = "throw"
             THEN [ Thrown(out.error) EXCEPT
                      !.calls = ran.calls, !.invoked = ran.invoked ]
             ELSE IF out.t = "result"
             THEN [ Response(0, q.id, "result", 0, << >>) EXCEPT
                      !.calls = ran.calls, !.invoked = ran.invoked ]
             ELSE [ Response(0, q.id, "error", MethodNotFound,
                             << "Unknown tool: ", q.name >>) EXCEPT
                      !.calls = ran.calls, !.invoked = ran.invoked ]

\* The CallTool handler of the MCP server: the families are tried and
\* null from all of them throws new Error(`Unknown tool: ${name}`).
SessionCallTool(q) ==
    LET out == FirstNonNull(SessionFamilyOrder, q.name, q.arguments,
                            q.clientRejects, << >>)
    IN  IF out.t = "throw"
        THEN [ Thrown(out.error) EXCEPT
                 !.calls = out.calls, !.invoked = out.invoked ]
        ELSE IF out.t = "result"
        THEN [ Response(0, q.id, "result", 0, << >>) EXCEPT
                 !.calls = out.calls, !.invoked = out.invoked ]
        ELSE [ Thrown([class |-> "Error",
                       message |-> << "Unknown tool: ", q.name >>]) EXCEPT
                 !.calls = out.calls, !.invoked = out.invoked ]

\* The generator a resolved resource calls on the backing client.
Generator(family) ==
    CASE family = "account" -> "generateAccountCard"
      [] family = "blocks" -> "generateBlocksFeed"
      [] family = "contract" -> "generateContractReadme"
      [] family = "network" -> "generateNetworkStatus"

\* handleResourcesRead: params.uri is read and taken apart (a TypeError
\* without params or without a uri), the generator is awaited, and a URI
\* of no resource is answered with the error object.
HandleResourcesRead(q) ==
    IF ~q.paramsPresent \/ q.uri = NoUri THEN Thrown(TypeError)
    ELSE LET res == RpcResolve(q.uri) IN
         IF res.family = "unknown"
         THEN [ Response(0, q.id, "error", InvalidParams,
                         << << "Unknown resource URI: " >>, q.uri >>) EXCEPT
                  !.resolved = res ]
         ELSE IF q.clientRejects
         THEN [ Thrown(ClientError) EXCEPT
                  !.resolved = res, !.calls = << Generator(res.family) >> ]
         ELSE [ Response(0, q.id, "result", 0, << >>) EXCEPT
                  !.resolved = res, !.calls = << Generator(res.family) >> ]

\* The ReadResource handler of the MCP server: a URI of no resource throws
\* new Error(`Unknown resource URI: ${uri}`).
SessionReadResource(q) ==
    LET res == SessionResolve(q.uri) IN
    IF res.family = "unknown"
    THEN [ Thrown([class |-> "Error",
                   message |-> << << "Unknown resource URI: " >>, q.uri >>]) EXCEPT
             !.resolved = res ]
    ELSE IF q.clientRejects
    THEN [ Thrown(ClientError) EXCEPT
             !.resolved = res, !.calls = << Generator(res.family) >> ]
    ELSE [ Response(0, q.id, "result", 0, << >>) EXCEPT
             !.resolved = res, !.calls = << Generator(res.family) >> ]

\* The methods createRpcHandler routes.
RpcMethods ==
    { "tools/list", "tools/call", "resources/list",
      "resources/templates/list", "resources/read" }

\* The mutant of RpcRoute: an unknown method falls through to tools/list.
RpcRouteDefaultsToList(q) ==
    IF q.method = "tools/call" THEN HandleToolsCall(q)
    ELSE IF q.method = "resources/list"
    THEN Response(0, q.id, "result", 0, << >>)
    ELSE IF q.method = "resources/templates/list"
    THEN Response(0, q.id, "result", 0, << >>)
    ELSE IF q.method = "resources/read" THEN HandleResourcesRead(q)
    ELSE HandleToolsList(q.id)

\* The try block of createRpcHandler: the method's function, or the 404
\* response for a method it does not route.
RpcRoute(q) ==
    IF q.method = "tools/list" THEN HandleToolsList(q.id)
    ELSE IF q.method = "tools/call" THEN HandleToolsCall(q)
    ELSE IF q.method = "resources/list"
    THEN Response(0, q.id, "result", 0, << >>)
    ELSE IF q.method = "resources/templates/list"
    THEN Response(0, q.id, "result", 0, << >>)
    ELSE IF q.method = "resources/read" THEN HandleResourcesRead(q)
    ELSE Response(404, q.id, "error", MethodNotFound,
                  << "Method not found: ", q.method >>)

\* The mutant of RpcCatch: the response carries no id.
RpcCatchDropsId(q, inner) ==
    [ Response(500, Undefined, "error", InternalError,
               inner.error.message) EXCEPT
        !.error = inner.error, !.calls = inner.calls,
        !.invoked = inner.invoked, !.resolved = inner.resolved ]

\* The catch block of createRpcHandler: 500 with the id of the body, the
\* code of an internal error and the message of what was thrown.
RpcCatch(q, inner) ==
    [ Response(500, q.id, "error", InternalError, inner.error.message) EXCEPT
        !.error = inner.error, !.calls = inner.calls,
        !.invoked = inner.invoked, !.resolved = inner.resolved ]

\* createRpcHandler: res.json(response) answers 200 unless the 404 was
\* written, and whatever was thrown is answered by the catch block.
RpcAnswer(q) ==
    LET inner == RpcRoute(q) IN
    IF inner.thrown THEN RpcCatch(q, inner)
    ELSE [ inner EXCEPT !.http = IF @ = 0 THEN 200 ELSE @ ]

\* A session's answer to a JSON-RPC request: the SDK's Server runs the
\* handler createServer registered for the method, sends what it returns
\* as the result, and sends what it throws as a JSON-RPC error whose code
\* is the error's integer code property, InternalError for an error
\* without one (none of the errors thrown here has one).
SessionAnswer(q) ==
    LET inner ==
          IF q.method = "tools/list"
          THEN [ Response(0, q.id, "result", 0, << >>) EXCEPT
                   !.tools = SessionListTools ]
          ELSE IF q.method = "tools/call" THEN SessionCallTool(q)
          ELSE IF q.method = "resources/read" THEN SessionReadResource(q)
          ELSE Response(0, q.id, "result", 0, << >>)
    IN  IF inner.thrown
        THEN [ Response(200, q.id, "error", InternalError,
                        inner.error.message) EXCEPT
                 !.error = inner.error, !.calls = inner.calls,
                 !.invoked = inner.invoked, !.resolved = inner.resolved ]
        ELSE [ inner EXCEPT !.http = 200 ]

\* ------------------------------------------------------------------------
\* The requests the two surfaces are given.

\* Account ids are put together from at most MaxParts of the Pieces.
MaxParts == 2

\* Counts up to MaxCount are asked of near://blocks/latest.
MaxCount == 12

Pieces ==
    { << "a" >>, << "." >>, << "/" >>, << "r", "e", "a", "d", "m", "e" >>,
      ReadmeSuffix }

RECURSIVE Concats(_)
Concats(n) ==
    IF n = 0 THEN { << >> }
    ELSE LET shorter == Concats(n - 1)
         IN  shorter \cup { s \o p : s \in shorter, p \in Pieces }

AccountIds == Concats(MaxParts)

\* The decimal numeral of a natural number.
RECURSIVE ToDecimal(_)
ToDecimal(n) ==
    IF n < 10 THEN << DecimalDigits[n + 1] >>
    ELSE ToDecimal(n \div 10) \o << DecimalDigits[(n % 10) + 1] >>

\* near://blocks/latest?count=<n>
BlocksUri(n) == BlocksPrefix \o << "?" >> \o CountParam \o << "=" >> \o ToDecimal(n)

AccountUri(x) == AccountPrefix \o x

ContractUri(y) == ContractPrefix \o y \o ReadmeSuffix

Uris ==
    { AccountUri(x) : x \in AccountIds }
        \cup { ContractUri(y) : y \in AccountIds }
        \cup { BlocksUri(n) : n \in 0..MaxCount }
        \cup { BlocksPrefix, NetworkStatusUri,
               ContractPrefix \o << "a" >>,
               << "n", "e", "a", "r", ":", "/", "/", "x" >> }

Ids == { "1", "req-2", Undefined }

ToolNames ==
    DOMAIN BlockTools \cup DOMAIN AccountTools \cup DOMAIN ContractTools
        \cup { "near.unknownTool", "getBlock", Undefined }

UnknownMethods == { "ping", "tools/List", "initialize", Undefined }

\* The bodies POST /rpc is given.
RpcRequests ==
    { Request("tools/call", TRUE, name, arguments, NoUri, id, rejects) :
        name \in ToolNames, arguments \in Arguments, id \in Ids,
        rejects \in BOOLEAN }
    \cup { Request("resources/read", TRUE, Undefined, "valid", uri, id, rejects) :
        uri \in Uris \cup {NoUri}, id \in Ids, rejects \in BOOLEAN }
    \cup { Request(method, present, Undefined, "valid", NoUri, id, FALSE) :
        method \in RpcMethods \cup UnknownMethods, present \in BOOLEAN,
        id \in Ids }

\* The JSON-RPC requests a session hands to the handlers of createServer:
\* the SDK has checked their shape.
SessionRequests ==
    { q \in RpcRequests :
        /\ q.method \in RpcMethods
        /\ q.id # Undefined
        /\ q.method = "tools/call" => q.paramsPresent /\ q.name # Undefined
        /\ q.method = "resources/read" => q.paramsPresent /\ q.uri # NoUri }

NoResponse == Response(0, Undefined, "none", 0, << >>)

NoExchange ==
    [ sent |-> FALSE,
      request |-> Request(Undefined, FALSE, Undefined, "valid", NoUri,
                          Undefined, FALSE),
      rpc |-> NoResponse, mcp |-> NoResponse ]

\* ------------------------------------------------------------------------
\* The HTTP front: configuration, the logger's level, the health check.

\* LOG_LEVEL: the minimum level of the structured logs.
LogLevels == { "trace", "debug", "info", "warn" }

\* The numeric value of a level.
LevelValue(l) ==
    CASE l = "trace" -> 10
      [] l = "debug" -> 20
      [] l = "info"  -> 30
      [] l = "warn"  -> 40
      [] OTHER       -> 50

\* A call of the logger's method at level 'at' writes a record when the
\* logger's level is 'level'.
Emits(level, at) == LevelValue(at) >= LevelValue(level)

\* NearClientConfig as parseArgs builds it, with the level of the logger.
Configs ==
    [ network : { "mainnet", "testnet" },
      rpcUrl : { Undefined, "https://rpc.example" },
      apiKey : { Undefined, "", "s1", "s2" },
      logLevel : LogLevels ]

\* NearClient.getNetwork
GetNetwork(config) == config.network

\* NearClient.getRpcUrl: the configured URL, or the network's default.
GetRpcUrl(config) ==
    IF Truthy(config.rpcUrl) THEN config.rpcUrl
    ELSE IF config.network = "mainnet" THEN "https://rpc.mainnet.near.org"
         ELSE "https://rpc.testnet.near.org"

\* The mutant of HealthCheckHandler: the response shows the key.
HealthCheckHandlerShowsKey(config) ==
    [ status |-> "ok", network |-> GetNetwork(config),
      rpcUrl |-> GetRpcUrl(config), hasApiKey |-> config.apiKey ]

\* The body the handler of createHealthCheckHandler answers with.
HealthCheckHandler(config) ==
    [ status |-> "ok", network |-> GetNetwork(config),
      rpcUrl |-> GetRpcUrl(config), hasApiKey |-> Truthy(config.apiKey) ]

\* The routes startHttpServer registers, and whether authMiddleware
\* stands before the route's handler.
FrontRoutes == { "health", "rpc", "mcp" }

Gated(rt) == rt \in { "rpc", "mcp" }

NoBody == [ status |-> "none" ]

NoFront ==
    [ stage |-> "none", route |-> "none", header |-> NoHeader,
      query |-> Undefined,
      config |-> [ network |-> "mainnet", rpcUrl |-> Undefined,
                   apiKey |-> Undefined, logLevel |-> "info" ],
      sentKey |-> Undefined, usedQuery |-> FALSE, records |-> << >>,
      validateCalls |-> 0, status |-> 0, body |-> NoBody ]

\* ------------------------------------------------------------------------
\* Stdio mode: main() without --http.

\* The values of an environment variable.
EnvValues == { Undefined, "", "k1", "k2" }

\* a ?? b
Coalesce(a, b) == IF a # Undefined THEN a ELSE b

\* The mutant of StartsStdioServer: the exit after a failed validation is
\* missing.
StartsStdioServerAlways(isValid) == TRUE

\* main() after validateApiKey: process.exit(1) when the key is not valid,
\* startStdioServer otherwise.
StartsStdioServer(isValid) == isValid

\* No reply of the authority yet.
NoReply == [threw |-> FALSE, ok |-> FALSE, json |-> "none", valid |-> "undefined"]

NoStdio ==
    [ stage |-> "none", mcpApiKey |-> Undefined, apiKeyEnv |-> Undefined,
      network |-> "mainnet", apiKey |-> Undefined, validateCalls |-> 0,
      reply |-> NoReply, connectCalls |-> 0, exitCode |-> -1 ]

\* ------------------------------------------------------------------------
\* The observer of the response stream: wrapResponseForMcpLogging.

\* Number of res.write / res.end calls the engine makes on one response.
MaxWrites == 2

\* A line of a chunk: whether it starts with 'data: ', and what follows:
\*   "result", "error", "message": a JSON object with a result, with an
\*   error, with neither; "null": JSON null; "primitive": a JSON number,
\*   string or boolean; "notjson": no JSON.
Line(data, payload) == [ data |-> data, payload |-> payload ]

\* The chunks the engine writes: strings and Buffers (as their lines,
\* << >> for the empty string), a value of another type, no chunk.
Chunks ==
    { [ type |-> "absent", lines |-> << >> ],
      [ type |-> "other", lines |-> << >> ],
      [ type |-> "buffer", lines |-> << Line(TRUE, "result") >> ] }
    \cup
    { [ type |-> "string", lines |-> l ] :
        l \in { << >>,
                << Line(FALSE, "result") >>,
                << Line(TRUE, "result") >>,
                << Line(TRUE, "notjson") >>,
                << Line(TRUE, "null"), Line(TRUE, "error") >>,
                << Line(TRUE, "primitive"), Line(TRUE, "message") >> } }

\* The extra arguments of a call, and what the original method returns.
ExtraArgs == { << >>, << "utf8", "callback" >> }

WriteReturns == { "true", "false" }

\* What handling one line produced: the log entries and whether an
\* exception left it.
Traced(entries, threw) == [ entries |-> entries, threw |-> threw ]

\* The body of the try block for one line: JSON.parse(line.substring(6))
\* and logger.trace with 'result', 'error' or 'message'.  JSON.parse throws
\* on what is no JSON, json.result throws on null, logger.trace can throw.
TraceLine(line, loggerFails) ==
    IF ~line.data THEN Traced(<< >>, FALSE)
    ELSE IF line.payload \in { "notjson", "null" } THEN Traced(<< >>, TRUE)
    ELSE IF loggerFails THEN Traced(<< >>, TRUE)
    ELSE Traced(<< IF line.payload \in { "result", "error" }
                   THEN line.payload ELSE "message" >>, FALSE)

\* The mutant of TryLine: there is no catch, the exception leaves.
TryLineRethrows(line, loggerFails) == TraceLine(line, loggerFails)

\* One line in its try/catch: the catch block is empty.
TryLine(line, loggerFails) ==
    Traced(TraceLine(line, loggerFails).entries, FALSE)

\* parseAndLogSseData: the lines in order, up to an exception.
RECURSIVE ParseAndLogSseData(_, _)
ParseAndLogSseData(lines, loggerFails) ==
    IF lines = << >> THEN Traced(<< >>, FALSE)
    ELSE LET first == TryLine(Head(lines), loggerFails) IN
         IF first.threw THEN first
         ELSE LET rest == ParseAndLogSseData(Tail(lines), loggerFails)
              IN  Traced(first.entries \o rest.entries, rest.threw)

\* chunk is truthy.
TruthyChunk(chunk) ==
    /\ chunk.type # "absent"
    /\ ~(chunk.type = "string" /\ chunk.lines = << >>)

\* typeof chunk === 'string' || Buffer.isBuffer(chunk)
IsText(chunk) == chunk.type \in { "string", "buffer" }

\* The mutant of Forward: the extra arguments are not passed on.
ForwardChunkOnly(method, chunk, args) ==
    [ method |-> method, chunk |-> chunk, args |-> << >> ]

\* originalWrite(chunk, ...args) / originalEnd(chunk, ...args): the call
\* the original method receives.
Forward(method, chunk, args) ==
    [ method |-> method, chunk |-> chunk, args |-> args ]

\* The replaced res.write (method "write") and res.end (method "end"): the
\* chunk is traced when it is text (and, for end, truthy), then the
\* original method is called and its return value returned.  An exception
\* of the tracing would leave before the original method is called.
Wrapped(method, chunk, args, ret, loggerFails) ==
    LET t == IF IsText(chunk) /\ (method = "write" \/ TruthyChunk(chunk))
             THEN ParseAndLogSseData(chunk.lines, loggerFails)
             ELSE Traced(<< >>, FALSE)
    IN  [ entries |-> t.entries, threw |-> t.threw,
          delivered |-> IF t.threw THEN << >>
                        ELSE << Forward(method, chunk, args) >>,
          returned |-> IF t.threw THEN << >> ELSE << ret >> ]

\* The mutant of Replaces: the methods are replaced at every level.
ReplacesAlways(level) == TRUE

\* wrapResponseForMcpLogging replaces res.write and res.end: only when
\* the logger's level is 'trace'.
Replaces(level) == level = "trace"

NoStream ==
    [ stage |-> "none", level |-> "info", loggerFails |-> FALSE,
      replaced |-> FALSE, delivered |-> << >>,
      plain |-> << >>, returned |-> << >>, originalReturned |-> << >>,
      entries |-> << >>, threw |-> FALSE ]

VARIABLES
    pc,             \* where each request's handling stands
    route,          \* the route of the request
    kind,           \* /mcp: the request's shape, kept while connect is awaited
    sidHdr,         \* /mcp: req.headers['mcp-session-id'], kept likewise
    status,         \* the HTTP status written for the request, 0 before
    session,        \* /mcp handler: the ServerSession the request works on
    closing,        \* on-closed callback: closedSessionId while it awaits
    sessions,       \* SessionManager.sessions
    transportSid,   \* transport.sessionId of each ServerSession
    closeCalls,     \* server.close() calls made on each ServerSession
    uuidCount,      \* randomUUID() calls made so far
    hist,           \* what happened to each request (observation only)
    exchange,       \* the request given to both surfaces and their answers
    life,           \* lifecycle events of each identifier (observation only)
    front,          \* the request at the HTTP front and what became of it
    stdio,          \* the process in stdio mode
    stream          \* a response stream under the observer

\* The state of the HTTP server.
mainVars == << pc, route, kind, sidHdr, status, session, closing, sessions,
               transportSid, closeCalls, uuidCount, hist, life >>

\* The state of the other machines, which the HTTP server leaves alone.
sideVars == << exchange, front, stdio, stream >>

vars == << mainVars, sideVars >>

\* The mutant of GetSession: the test of the identifier is inverted.
GetSessionInverted(m, sessionId) ==
    IF Truthy(sessionId) THEN NoSession ELSE MapGet(m, sessionId)

\* SessionManager.getSession
GetSession(m, sessionId) ==
    IF ~Truthy(sessionId) THEN NoSession ELSE MapGet(m, sessionId)

\* A mutant of StoreSession: the has() guard is missing.
StoreSessionOverwrites(m, s, sid) ==
    IF Truthy(sid) THEN MapSet(m, sid, s) ELSE m

\* A mutant of StoreSession: the test of transport.sessionId is missing.
StoreSessionNoIdCheck(m, s, sid) ==
    IF ~MapHas(m, sid) THEN MapSet(m, sid, s) ELSE m

\* The mutant of OnSessionInitialized: the callback stores the session.
OnSessionInitializedStores(m, id, e) == MapSet(m, id, e)

\* The on-initialized callback, fired by the transport of session e once it
\* has generated identifier id: it logs and leaves the table m as it is.
OnSessionInitialized(m, id, e) == m

\* SessionManager.storeSession, for a session whose transport.sessionId is sid.
StoreSession(m, s, sid) ==
    IF Truthy(sid) /\ ~MapHas(m, sid) THEN MapSet(m, sid, s) ELSE m

\* The identifiers a client can send: none, one it made up, or one a
\* server response has shown it.
ClientSids == { Undefined, ClientProposedId } \cup { UUID(i) : i \in 1..uuidCount }

\* Observation: the request carries no 'Authorization: Bearer <non-empty
\* key>' header and no apiKey query parameter.
CarriesNoCredential(h, q) ==
    /\ ~(h.present /\ h.head = "Bearer " /\ h.tail # "")
    /\ q = Undefined

\* Observation: the request carries a non-empty key, in an
\* 'Authorization: Bearer <key>' header or in the apiKey query parameter.
CarriesKey(h, q) ==
    \/ h.present /\ h.head = "Bearer " /\ h.tail # ""
    \/ q \notin {Undefined, ""}

NoHist ==
    [ noCredential |-> FALSE, hasKey |-> FALSE, validateCalls |-> 0, accepted |-> FALSE,
      isValid |-> FALSE, nextCalls |-> 0, handler |-> FALSE,
      created |-> FALSE, expect |-> NoSession, firedClose |-> FALSE,
      resolved |-> FALSE, failed |-> FALSE, storeCalled |-> FALSE,
      touched |-> FALSE, refusedKnownKey |-> FALSE,
      sentBeforeCatch |-> FALSE, catchWrote |-> FALSE, viaRpc |-> FALSE ]

Init ==
    /\ pc = [r \in Reqs |-> "idle"]
    /\ route = [r \in Reqs |-> "none"]
    /\ kind = [r \in Reqs |-> "none"]
    /\ sidHdr = [r \in Reqs |-> Undefined]
    /\ status = [r \in Reqs |-> 0]
    /\ session = [r \in Reqs |-> NoSession]
    /\ closing = [r \in Reqs |-> Undefined]
    /\ sessions = EmptyMap
    /\ transportSid = [r \in Reqs |-> Undefined]
    /\ closeCalls = [r \in Reqs |-> 0]
    /\ uuidCount = 0
    /\ hist = [r \in Reqs |-> NoHist]
    /\ exchange = NoExchange
    /\ front = NoFront
    /\ stdio = NoStdio
    /\ stream = NoStream
    /\ life = [ initialized |-> {}, closed |-> {}, terminated |-> {},
                owner |-> EmptyMap, firstStored |-> EmptyMap ]

\* What authMiddleware makes of the requests' credentials: for every
\* Authorization header and apiKey query parameter, the key it extracts and
\* whether the request carried no credential.
Credentials ==
    { [ apiKey |-> ExtractApiKey(h, q),
        noCredential |-> CarriesNoCredential(h, q),
        hasKey |-> CarriesKey(h, q) ] :
      <<h, q>> \in AuthHeaders \X QueryKeys }

\* What validateApiKey makes of the authority's replies: its return value
\* and whether the authority accepted the key.
Validations ==
    { [ isValid |-> ValidateApiKey(reply),
        accepted |-> AuthorityAccepts(reply) ] : reply \in AuthorityReplies }

\* ------------------------------------------------------------------------
\* authMiddleware up to its await of validateApiKey: the key is extracted,
\* a request without one is answered 401, otherwise the authority is called
\* with it.
AuthMiddleware(r) ==
    /\ pc[r] = "idle"
    /\ UNCHANGED sideVars
    /\ \A p \in Reqs : p < r => pc[p] # "idle"
    /\ \E rt \in Routes, c \in Credentials :
         LET h1 == [hist[r] EXCEPT !.noCredential = c.noCredential,
                                   !.hasKey = c.hasKey]
         IN  IF MissingApiKey(c.apiKey)
             THEN /\ status' = [status EXCEPT ![r] = 401]
                  /\ pc' = [pc EXCEPT ![r] = "done"]
                  /\ hist' = [hist EXCEPT ![r] = h1]
                  /\ UNCHANGED route
             ELSE /\ route' = [route EXCEPT ![r] = rt]
                  /\ pc' = [pc EXCEPT ![r] = "validating"]
                  /\ hist' = [hist EXCEPT ![r] =
                                [h1 EXCEPT !.validateCalls = @ + 1]]
                  /\ UNCHANGED status
    /\ UNCHANGED << kind, sidHdr, session, closing, sessions, transportSid,
                    closeCalls, uuidCount, life >>

\* The mutant of RpcHandler: the facade keeps a session for the
\* identifier the request names.
RpcHandlerKeepsSession(r, h) ==
    /\ \E st \in {200, 404, 500} : status' = [status EXCEPT ![r] = st]
    /\ pc' = [pc EXCEPT ![r] = "done"]
    /\ route' = [route EXCEPT ![r] = "none"]
    /\ hist' = [hist EXCEPT ![r] = [h EXCEPT !.handler = TRUE, !.viaRpc = TRUE]]
    /\ \E sid \in ClientSids : sessions' = StoreSession(sessions, r, sid)
    /\ UNCHANGED << kind, sidHdr, session, closing, transportSid,
                    closeCalls, uuidCount, life >>

\* The /rpc handler: it answers from the request body and the backing
\* client alone (200 with a result or an error object, 404 for an unknown
\* method, 500 when something threw), whatever headers the request has.
RpcHandler(r, h) ==
    /\ \E st \in {200, 404, 500} : status' = [status EXCEPT ![r] = st]
    /\ pc' = [pc EXCEPT ![r] = "done"]
    /\ route' = [route EXCEPT ![r] = "none"]
    /\ hist' = [hist EXCEPT ![r] = [h EXCEPT !.handler = TRUE, !.viaRpc = TRUE]]
    /\ UNCHANGED << kind, sidHdr, session, closing, sessions, transportSid,
                    closeCalls, uuidCount, life >>

\* The synchronous start of the on-closed callback for identifier id, fired
\* by the transport for a DELETE: the entry is looked up and, when there is
\* one, server.close() is called and awaited.
OnSessionClosed(r, id, h) ==
    LET closedSession == MapGet(sessions, id)
        h1 == [h EXCEPT !.firedClose = TRUE]
    IN  /\ life' = [life EXCEPT !.closed = @ \cup {id}]
        /\ hist' = [hist EXCEPT ![r] = h1]
        /\ IF closedSession # NoSession
           THEN /\ closeCalls' = [closeCalls EXCEPT ![closedSession] = @ + 1]
                /\ closing' = [closing EXCEPT ![r] = id]
                /\ pc' = [pc EXCEPT ![r] = "closing"]
           ELSE /\ pc' = [pc EXCEPT ![r] = "handling"]
                /\ UNCHANGED << closeCalls, closing >>
        /\ UNCHANGED << status, sessions, transportSid, uuidCount >>

\* The transport answered the request itself with an error status.
TransportRefuses(r, st, h) ==
    /\ status' = [status EXCEPT ![r] = st]
    /\ pc' = [pc EXCEPT ![r] = "handling"]
    /\ hist' = [hist EXCEPT ![r] = h]
    /\ UNCHANGED << closing, sessions, transportSid, closeCalls, uuidCount, life >>

\* session.transport.handleRequest(req, res, req.body) up to its first
\* await, for the transport of ServerSession e.  The initialize request
\* makes the transport generate its identifier and fire on-initialized;
\* every other request must name the transport's identifier; a DELETE
\* fires on-closed.
HandleRequest(r, e, k, sid, h) ==
    IF k = "initialize"
    THEN IF transportSid[e] # Undefined
         THEN TransportRefuses(r, 400, h)
         ELSE LET id == UUID(uuidCount + 1) IN
              /\ uuidCount' = uuidCount + 1
              /\ transportSid' = [transportSid EXCEPT ![e] = id]
              /\ life' = [life EXCEPT !.initialized = @ \cup {id},
                                      !.owner = MapSet(@, id, e)]
              /\ sessions' = OnSessionInitialized(sessions, id, e)
              /\ pc' = [pc EXCEPT ![r] = "handling"]
              /\ hist' = [hist EXCEPT ![r] = h]
              /\ UNCHANGED << status, closing, closeCalls >>
    ELSE IF transportSid[e] = Undefined \/ ~Truthy(sid)
         THEN TransportRefuses(r, 400, h)
         ELSE IF sid # transportSid[e]
              THEN TransportRefuses(r, 404, h)
              ELSE IF k = "terminate"
                   THEN OnSessionClosed(r, transportSid[e], h)
                   ELSE /\ pc' = [pc EXCEPT ![r] = "handling"]
                        /\ hist' = [hist EXCEPT ![r] = h]
                        /\ UNCHANGED << status, closing, sessions, transportSid,
                                        closeCalls, uuidCount, life >>

\* The /mcp handler up to its first await: the session is looked up; when
\* there is none a transport and a server are created and server.connect
\* is awaited, otherwise the request goes to the stored session's transport.
McpHandler(r, h) ==
    \E k \in Kinds, sid \in ClientSids :
        LET found == GetSession(sessions, sid)
            h1 == [h EXCEPT !.handler = TRUE,
                            !.expect = IF /\ MapHas(life.firstStored, sid)
                                          /\ sid \notin life.closed
                                       THEN life.firstStored[sid]
                                       ELSE NoSession]
        IN  IF found = NoSession
            THEN /\ kind' = [kind EXCEPT ![r] = k]
                 /\ sidHdr' = [sidHdr EXCEPT ![r] = sid]
                 /\ pc' = [pc EXCEPT ![r] = "connecting"]
                 /\ hist' = [hist EXCEPT ![r] = [h1 EXCEPT !.created = TRUE]]
                 /\ UNCHANGED << status, session, closing, sessions,
                                 transportSid, closeCalls, uuidCount, life >>
            ELSE /\ session' = [session EXCEPT ![r] = found]
                 /\ HandleRequest(r, found, k, sid, h1)
                 /\ UNCHANGED << kind, sidHdr >>

\* Whether the key of the request whose validation returns is one the
\* authority accepted for an earlier request: it can be once there is one.
KnownKey == IF \E p \in Reqs : hist[p].accepted THEN BOOLEAN ELSE {FALSE}

\* validateApiKey returns and authMiddleware resumes: 403 when the key is
\* not valid, otherwise next(), which runs the route's handler.
ValidateReturns(r) ==
    /\ pc[r] = "validating"
    /\ UNCHANGED sideVars
    /\ \E v \in Validations, known \in KnownKey :
         LET h1 == [hist[r] EXCEPT !.accepted = v.accepted,
                                   !.isValid = v.isValid]
         IN  IF ~CallsNext(v.isValid)
             THEN /\ status' = [status EXCEPT ![r] = 403]
                  /\ pc' = [pc EXCEPT ![r] = "done"]
                  /\ route' = [route EXCEPT ![r] = "none"]
                  /\ hist' = [hist EXCEPT ![r] =
                                [h1 EXCEPT !.refusedKnownKey = known]]
                  /\ UNCHANGED << kind, sidHdr, session, closing, sessions,
                                  transportSid, closeCalls, uuidCount, life >>
             ELSE LET h2 == [h1 EXCEPT !.nextCalls = @ + 1] IN
                  IF route[r] = "rpc"
                  THEN RpcHandler(r, h2)
                  ELSE McpHandler(r, h2) /\ UNCHANGED route

\* server.connect(transport) resolved: the session object is built and the
\* request goes to its transport.
ConnectResolves(r) ==
    /\ pc[r] = "connecting"
    /\ UNCHANGED sideVars
    /\ session' = [session EXCEPT ![r] = r]
    /\ HandleRequest(r, r, kind[r], sidHdr[r], hist[r])
    /\ kind' = [kind EXCEPT ![r] = "none"]
    /\ sidHdr' = [sidHdr EXCEPT ![r] = Undefined]
    /\ UNCHANGED route

\* The handler returned: its request and its locals are gone.
Return(r) ==
    /\ pc' = [pc EXCEPT ![r] = "done"]
    /\ route' = [route EXCEPT ![r] = "none"]
    /\ kind' = [kind EXCEPT ![r] = "none"]
    /\ sidHdr' = [sidHdr EXCEPT ![r] = Undefined]
    /\ session' = [session EXCEPT ![r] = NoSession]
    /\ closing' = [closing EXCEPT ![r] = Undefined]

\* The mutant of CatchWrites500: the test of res.headersSent is missing.
CatchWrites500Always(headersSent) == TRUE

\* The catch block of the /mcp handler writes its 500 response:
\* if (!res.headersSent).
CatchWrites500(headersSent) == ~headersSent

\* The catch block of the /mcp handler, entered with the exception of
\* server.connect or handleRequest: the 500 response with the body
\* {error, message} is written unless headers were sent (the transport had
\* then begun a 200 response), and the handler returns normally.
CatchMcp(r, headersSent) ==
    /\ status' = [status EXCEPT ![r] =
                    IF CatchWrites500(headersSent) THEN 500
                    ELSE IF status[r] # 0 THEN status[r] ELSE 200]
    /\ hist' = [hist EXCEPT ![r] =
                  [@ EXCEPT !.failed = TRUE, !.expect = NoSession,
                            !.firedClose = FALSE,
                            !.sentBeforeCatch = headersSent,
                            !.catchWrote = CatchWrites500(headersSent)]]
    /\ Return(r)

\* server.connect(transport) rejected.
ConnectRejects(r) ==
    /\ pc[r] = "connecting"
    /\ UNCHANGED sideVars
    /\ CatchMcp(r, FALSE)
    /\ UNCHANGED << sessions, transportSid, closeCalls, uuidCount, life >>

\* on-closed callback: server.close() resolved, the entry is deleted; the
\* transport then closes itself and goes on to answer the DELETE.
ServerCloseResolves(r) ==
    /\ pc[r] = "closing"
    /\ UNCHANGED sideVars
    /\ sessions' = MapDelete(sessions, closing[r])
    /\ closing' = [closing EXCEPT ![r] = Undefined]
    /\ pc' = [pc EXCEPT ![r] = "handling"]
    /\ hist' = [hist EXCEPT ![r] =
                  [@ EXCEPT !.touched = @ \/ sessions' # sessions]]
    /\ UNCHANGED << route, kind, sidHdr, status, session, transportSid,
                    closeCalls, uuidCount, life >>

\* on-closed callback: server.close() rejected; the rejection leaves the
\* callback and handleRequest and lands in the handler's catch block.
ServerCloseRejects(r) ==
    /\ pc[r] = "closing"
    /\ UNCHANGED sideVars
    /\ CatchMcp(r, FALSE)
    /\ UNCHANGED << sessions, transportSid, closeCalls, uuidCount, life >>

\* handleRequest resolved: the handler calls storeSession(session).
HandleRequestResolves(r) ==
    /\ pc[r] = "handling"
    /\ UNCHANGED sideVars
    /\ LET sid == transportSid[session[r]] IN
       /\ sessions' = StoreSession(sessions, session[r], sid)
       /\ hist' = [hist EXCEPT ![r] =
                     [@ EXCEPT !.resolved = TRUE, !.storeCalled = TRUE,
                               !.touched = @ \/ sessions' # sessions,
                               !.expect = NoSession, !.firedClose = FALSE]]
       /\ life' = [life EXCEPT
                     !.terminated = IF hist[r].firedClose
                                    THEN @ \cup {sid} ELSE @,
                     !.firstStored = IF sessions' # sessions /\ ~MapHas(@, sid)
                                     THEN MapSet(@, sid, sessions'[sid])
                                     ELSE @]
    /\ status' = [status EXCEPT ![r] = IF @ = 0 THEN 200 ELSE @]
    /\ Return(r)
    /\ UNCHANGED << transportSid, closeCalls, uuidCount >>

\* handleRequest rejected, before or after the transport sent headers.
HandleRequestRejects(r) ==
    /\ pc[r] = "handling"
    /\ UNCHANGED sideVars
    /\ status[r] = 0
    /\ \E headersSent \in BOOLEAN : CatchMcp(r, headersSent)
    /\ UNCHANGED << sessions, transportSid, closeCalls, uuidCount, life >>

Next ==
    \E r \in Reqs :
        \/ AuthMiddleware(r)
        \/ ValidateReturns(r)
        \/ ConnectResolves(r)
        \/ ConnectRejects(r)
        \/ ServerCloseResolves(r)
        \/ ServerCloseRejects(r)
        \/ HandleRequestResolves(r)
        \/ HandleRequestRejects(r)

Spec == Init /\ [][Next]_vars

\* ------------------------------------------------------------------------
\* One request given to both surfaces, past the auth gate: to POST /rpc
\* and to a session of the MCP server.

\* A request is at hand.
Receive(q) ==
    /\ ~exchange.sent
    /\ exchange' = [NoExchange EXCEPT !.sent = TRUE, !.request = q]
    /\ UNCHANGED << mainVars, front, stdio, stream >>

\* POST /rpc answers it.
AnswerRpc ==
    /\ exchange.sent
    /\ exchange.rpc = NoResponse
    /\ exchange' = [exchange EXCEPT !.rpc = RpcAnswer(exchange.request)]
    /\ UNCHANGED << mainVars, front, stdio, stream >>

\* A session answers it.
AnswerSession ==
    /\ exchange.sent
    /\ exchange.request \in SessionRequests
    /\ exchange.mcp = NoResponse
    /\ exchange' = [exchange EXCEPT !.mcp = SessionAnswer(exchange.request)]
    /\ UNCHANGED << mainVars, front, stdio, stream >>

\* The request is over.
Forget ==
    /\ exchange.sent
    /\ exchange.rpc # NoResponse
    /\ exchange' = NoExchange
    /\ UNCHANGED << mainVars, front, stdio, stream >>

FacadeNext ==
    \/ \E q \in RpcRequests : Receive(q)
    \/ AnswerRpc
    \/ AnswerSession
    \/ Forget

FacadeSpec == Init /\ [][FacadeNext]_vars

\* ------------------------------------------------------------------------
\* One request at the HTTP front: GET /health, or a request to a route
\* behind authMiddleware.

\* The server runs with a configuration and a request arrives.
Arrive(rt, h, q, config) ==
    /\ front.stage = "none"
    /\ front' = [NoFront EXCEPT !.stage = "arrived", !.route = rt,
                                !.header = h, !.query = q,
                                !.config = config]
    /\ UNCHANGED << mainVars, exchange, stdio, stream >>

\* The route has no gate: its handler answers.
HealthCheck ==
    /\ front.stage = "arrived"
    /\ ~Gated(front.route)
    /\ front' = [front EXCEPT !.stage = "answered", !.status = 200,
                              !.body = HealthCheckHandler(front.config)]
    /\ UNCHANGED << mainVars, exchange, stdio, stream >>

\* authMiddleware up to its await: the key is taken from the header or,
\* failing that, from the query, which logger.debug records; without a key
\* the answer is 401, otherwise the key goes to the authority.
FrontGate ==
    /\ front.stage = "arrived"
    /\ Gated(front.route)
    /\ LET apiKey == ExtractApiKey(front.header, front.query)
           fallback == UsesQueryKey(front.header, front.query)
           records == IF fallback /\ Emits(front.config.logLevel, "debug")
                      THEN << "API key provided via query parameter" >>
                      ELSE << >>
       IN  IF MissingApiKey(apiKey)
           THEN front' = [front EXCEPT !.stage = "answered", !.status = 401,
                                       !.usedQuery = fallback,
                                       !.records = records]
           ELSE front' = [front EXCEPT !.stage = "validating",
                                       !.sentKey = apiKey,
                                       !.usedQuery = fallback,
                                       !.records = records,
                                       !.validateCalls = @ + 1]
    /\ UNCHANGED << mainVars, exchange, stdio, stream >>

\* validateApiKey returns: 403, or next().
FrontValidated(reply) ==
    /\ front.stage = "validating"
    /\ front' = IF CallsNext(ValidateApiKey(reply))
                THEN [front EXCEPT !.stage = "passed"]
                ELSE [front EXCEPT !.stage = "answered", !.status = 403]
    /\ UNCHANGED << mainVars, exchange, stdio, stream >>

\* The request is over.
FrontDone ==
    /\ front.stage \in { "answered", "passed" }
    /\ front' = NoFront
    /\ UNCHANGED << mainVars, exchange, stdio, stream >>

FrontNext ==
    \/ \E rt \in FrontRoutes, h \in AuthHeaders, q \in QueryKeys,
          config \in Configs : Arrive(rt, h, q, config)
    \/ HealthCheck
    \/ FrontGate
    \/ \E reply \in AuthorityReplies : FrontValidated(reply)
    \/ FrontDone

FrontSpec == Init /\ [][FrontNext]_vars

\* ------------------------------------------------------------------------
\* The process in stdio mode, from main() to the connected server or to
\* its exit.

\* main() up to its await of validateApiKey: the key is read from
\* MCP_API_KEY ?? API_KEY; without one the process exits with code 1.
Main(mcpApiKey, apiKeyEnv, network) ==
    /\ stdio.stage = "none"
    /\ LET apiKey == Coalesce(mcpApiKey, apiKeyEnv)
           s == [NoStdio EXCEPT !.mcpApiKey = mcpApiKey,
                                !.apiKeyEnv = apiKeyEnv,
                                !.network = network, !.apiKey = apiKey]
       IN  stdio' = IF MissingApiKey(apiKey)
                    THEN [s EXCEPT !.stage = "exited", !.exitCode = 1]
                    ELSE [s EXCEPT !.stage = "validating",
                                   !.validateCalls = @ + 1]
    /\ UNCHANGED << mainVars, exchange, front, stream >>

\* validateApiKey returns: process.exit(1), or startStdioServer up to its
\* await of server.connect(transport).
StdioValidated(reply) ==
    /\ stdio.stage = "validating"
    /\ stdio' = IF StartsStdioServer(ValidateApiKey(reply))
                THEN [stdio EXCEPT !.stage = "connecting", !.reply = reply,
                                   !.connectCalls = @ + 1]
                ELSE [stdio EXCEPT !.stage = "exited", !.reply = reply,
                                   !.exitCode = 1]
    /\ UNCHANGED << mainVars, exchange, front, stream >>

\* server.connect(transport) resolved: the server runs on stdio.
StdioConnected ==
    /\ stdio.stage = "connecting"
    /\ stdio' = [stdio EXCEPT !.stage = "connected"]
    /\ UNCHANGED << mainVars, exchange, front, stream >>

\* server.connect(transport) rejected: main() rejects, and its catch
\* logs the error and rethrows.
StdioConnectRejects ==
    /\ stdio.stage = "connecting"
    /\ stdio' = [stdio EXCEPT !.stage = "exited", !.exitCode = 1]
    /\ UNCHANGED << mainVars, exchange, front, stream >>

StdioNext ==
    \/ \E a \in EnvValues, b \in EnvValues, n \in { "mainnet", "testnet" } :
          Main(a, b, n)
    \/ \E reply \in AuthorityReplies : StdioValidated(reply)
    \/ StdioConnected
    \/ StdioConnectRejects

StdioSpec == Init /\ [][StdioNext]_vars

\* ------------------------------------------------------------------------
\* One response of the /mcp handler and the engine's writes on it, next
\* to the same writes on a response that was not wrapped.

\* wrapResponseForMcpLogging(res), with the logger at a level; the
\* logger's trace method works or fails for this response.
WrapResponse(level, loggerFails) ==
    /\ stream.stage = "none"
    /\ stream' = [NoStream EXCEPT !.stage = "open", !.level = level,
                                  !.loggerFails = loggerFails,
                                  !.replaced = Replaces(level)]
    /\ UNCHANGED << mainVars, exchange, front, stdio >>

\* The engine calls res.write or res.end with a chunk and extra
\* arguments; the original method would return ret.
EngineCall(method, chunk, args, ret) ==
    /\ stream.stage = "open"
    /\ Len(stream.plain) < MaxWrites
    /\ LET call == [ method |-> method, chunk |-> chunk, args |-> args ]
           w == IF stream.replaced
                THEN Wrapped(method, chunk, args, ret, stream.loggerFails)
                ELSE [ entries |-> << >>, threw |-> FALSE,
                       delivered |-> << call >>, returned |-> << ret >> ]
       IN  stream' = [stream EXCEPT
                        !.stage = IF method = "end" THEN "ended" ELSE @,
                        !.delivered = @ \o w.delivered,
                        !.plain = Append(@, call),
                        !.returned = @ \o w.returned,
                        !.originalReturned =
                            IF w.delivered = << >> THEN @ ELSE Append(@, ret),
                        !.entries = @ \o w.entries,
                        !.threw = @ \/ w.threw]
    /\ UNCHANGED << mainVars, exchange, front, stdio >>

\* The response is over.
StreamDone ==
    /\ stream.stage = "ended"
    /\ stream' = NoStream
    /\ UNCHANGED << mainVars, exchange, front, stdio >>

ObserverNext ==
    \/ \E level \in { "trace", "info" }, loggerFails \in BOOLEAN :
          WrapResponse(level, loggerFails)
    \/ \E chunk \in Chunks, args \in ExtraArgs, ret \in WriteReturns :
          EngineCall("write", chunk, args, ret)
    \/ \E chunk \in Chunks, args \in ExtraArgs :
          EngineCall("end", chunk, args, "res")
    \/ StreamDone

ObserverSpec == Init /\ [][ObserverNext]_vars

\* ------------------------------------------------------------------------
\* Properties.

\* The identifiers randomUUID() has returned so far.
Generated == { UUID(i) : i \in 1..uuidCount }

\* The request has left authMiddleware.
LeftGate(r) == pc[r] \notin {"idle", "validating"}

\* No request is between its arrival and its response.
Quiescent == \A r \in Reqs : pc[r] \in {"idle", "done"}

\* C1: a request that carries no credential is answered 401, and neither
\* validateApiKey nor the route's handler is ever invoked for it.
C1_NoCredentialIs401 ==
    \A r \in Reqs :
        hist[r].noCredential =>
            /\ pc[r] = "done"
            /\ status[r] = 401
            /\ hist[r].validateCalls = 0
            /\ hist[r].nextCalls = 0
            /\ ~hist[r].handler

C1_Witness ==
    \E r \in Reqs : hist[r].noCredential /\ pc[r] = "done" /\ status[r] = 401

\* C2: the gate fails closed: when the authority's answer to a request's
\* call is anything but {valid: true} on a success status, validateApiKey
\* returns false, the request is answered 403 and next() is never called;
\* a request for which next() was called had its key accepted.
C2_FailsClosed ==
    \A r \in Reqs :
        /\ (LeftGate(r) /\ hist[r].validateCalls > 0 /\ ~hist[r].accepted) =>
              /\ ~hist[r].isValid
              /\ pc[r] = "done"
              /\ status[r] = 403
              /\ hist[r].nextCalls = 0
              /\ ~hist[r].handler
        /\ (hist[r].nextCalls > 0 \/ hist[r].handler) => hist[r].accepted

C2_Witness ==
    \E r \in Reqs :
        /\ hist[r].validateCalls > 0 /\ ~hist[r].accepted
        /\ pc[r] = "done" /\ status[r] = 403

\* C3: once a DELETE for a stored identifier has been fully handled
\* (handleRequest, the on-closed callback, the trailing storeSession),
\* getSession finds no session under that identifier, now and later.
C3_TerminatedStaysAbsent ==
    \A id \in life.terminated : GetSession(sessions, id) = NoSession

\* C4: a request that carries an identifier whose session was stored after
\* its first request and has not been closed works on the session stored
\* then; no transport or server is created for it.
C4_SessionReuse ==
    \A r \in Reqs :
        hist[r].expect # NoSession =>
            /\ session[r] = hist[r].expect
            /\ ~hist[r].created
            /\ pc[r] # "connecting"

C4_Witness ==
    \E r \in Reqs :
        /\ hist[r].expect # NoSession
        /\ pc[r] = "handling"
        /\ session[r] = hist[r].expect
        /\ hist[session[r]].created /\ pc[session[r]] = "done"

\* C5: the table holds an entry under an identifier only between the
\* on-initialized callback for it and the on-closed callback for it.
C5_LiveOnlyBetweenCallbacks ==
    \A id \in DOMAIN sessions :
        id \in life.initialized /\ id \notin life.closed

\* C6: storeSession inserts exactly when the identifier is non-empty and
\* has no entry; an existing entry is left as it is, an empty or undefined
\* identifier changes nothing, and storing twice equals storing once.
C6_StoreSession ==
    \A s \in Reqs, sid \in ClientSids \cup {""} :
        LET t == StoreSession(sessions, s, sid) IN
        /\ (Truthy(sid) /\ ~MapHas(sessions, sid)) =>
              /\ DOMAIN t = DOMAIN sessions \cup {sid}
              /\ t[sid] = s
              /\ \A k \in DOMAIN sessions : t[k] = sessions[k]
        /\ MapHas(sessions, sid) => t = sessions
        /\ ~Truthy(sid) => t = sessions
        /\ StoreSession(t, s, sid) = t

C6_Witness ==
    /\ sessions # EmptyMap
    /\ \E r \in Reqs :
         /\ hist[r].storeCalled /\ ~hist[r].touched
         /\ transportSid[r] = Undefined
    /\ \E r \in Reqs : hist[r].storeCalled /\ hist[r].touched

\* C7: a session is in the table only after handleRequest has resolved for
\* the request that created it; a creating request whose server.connect or
\* handleRequest rejected never called storeSession and never changed the
\* table.
C7_StoredAfterFirstRequest ==
    /\ \A id \in DOMAIN sessions : hist[sessions[id]].resolved
    /\ \A r \in Reqs :
         (hist[r].created /\ hist[r].failed) =>
              ~hist[r].storeCalled /\ ~hist[r].touched

C7_Witness ==
    /\ \E r \in Reqs :
         /\ hist[r].created /\ hist[r].failed /\ pc[r] = "done"
         /\ transportSid[r] # Undefined
    /\ \E r \in Reqs :
         /\ hist[r].created /\ pc[r] = "handling"
         /\ transportSid[r] # Undefined
         /\ ~MapHas(sessions, transportSid[r])

\* C8: a session whose closure was signalled (the on-closed callback fired
\* for its identifier) ends up absent from the table, also when
\* server.close() failed: once every request has been answered no closed
\* identifier has an entry.
C8_ClosedEndsAbsent ==
    Quiescent => \A id \in life.closed : ~MapHas(sessions, id)

\* C9: the table is never corrupted: every key is the server-generated
\* transport.sessionId of the session stored under it, never an identifier
\* a client proposed; the session under a key is the one first stored
\* there; no session is stored under two keys.
C9_TableNeverCorrupted ==
    /\ \A k \in DOMAIN sessions :
         /\ sessions[k] \in Reqs
         /\ transportSid[sessions[k]] = k
         /\ k \in Generated
         /\ k # ClientProposedId
         /\ MapHas(life.firstStored, k) /\ sessions[k] = life.firstStored[k]
         /\ MapHas(life.owner, k) /\ sessions[k] = life.owner[k]
    /\ \A k1, k2 \in DOMAIN sessions : sessions[k1] = sessions[k2] => k1 = k2

C9_Witness ==
    /\ Cardinality(DOMAIN sessions) >= 2
    /\ \E r \in Reqs : pc[r] = "connecting" /\ sidHdr[r] = ClientProposedId

\* C10: a handler runs for a request, and the request creates a session or
\* touches the table, only after validateApiKey returned true for that
\* request; a request leaves the gate by exactly one of a 401 response, a
\* 403 response and a single call of next().
C10_HandlerOnlyAfterValidation ==
    \A r \in Reqs :
        /\ (hist[r].handler \/ hist[r].created \/ hist[r].storeCalled
              \/ hist[r].touched \/ pc[r] \in {"connecting", "handling", "closing"}) =>
              /\ hist[r].isValid
              /\ hist[r].validateCalls = 1
        /\ hist[r].nextCalls <= 1
        /\ LeftGate(r) =>
              \/ status[r] = 401 /\ hist[r].nextCalls = 0 /\ ~hist[r].handler
              \/ status[r] = 403 /\ hist[r].nextCalls = 0 /\ ~hist[r].handler
              \/ status[r] \notin {401, 403} /\ hist[r].nextCalls = 1

C10_Witness ==
    /\ \E r \in Reqs : hist[r].touched /\ hist[r].isValid
    /\ \E r \in Reqs : pc[r] = "done" /\ status[r] = 403
    /\ \E r \in Reqs : pc[r] = "done" /\ status[r] = 401

\* C11: validation results are never cached: every request that carries a
\* key makes exactly one call to the authority, no matter which keys were
\* accepted before, and it is allowed exactly when the authority accepted
\* the key in the answer to that call; a key accepted for an earlier
\* request is refused when the authority no longer accepts it.
C11_NeverCached ==
    \A r \in Reqs :
        /\ pc[r] = "validating" =>
              /\ hist[r].validateCalls = 1
              /\ hist[r].nextCalls = 0
        /\ (LeftGate(r) /\ hist[r].hasKey) =>
              /\ hist[r].validateCalls = 1
              /\ hist[r].nextCalls = (IF hist[r].accepted THEN 1 ELSE 0)
              /\ hist[r].isValid = hist[r].accepted
              /\ (status[r] = 403) = ~hist[r].accepted
        /\ hist[r].refusedKnownKey =>
              status[r] = 403 /\ hist[r].nextCalls = 0 /\ ~hist[r].handler

C11_Witness ==
    \E r \in Reqs :
        /\ hist[r].refusedKnownKey
        /\ hist[r].validateCalls = 1
        /\ pc[r] = "done" /\ status[r] = 403
        /\ \E p \in Reqs : p < r /\ hist[p].accepted /\ hist[p].nextCalls = 1

\* C12: when server.connect or handleRequest throws in the /mcp handler the
\* exception does not leave the handler: the handler returns, and the 500
\* response with the body {error, message} is written exactly when no
\* response headers had been sent; when headers had been sent nothing is
\* written and the response stays the one the transport began.
C12_McpCatch ==
    \A r \in Reqs :
        /\ hist[r].failed =>
              /\ pc[r] = "done"
              /\ hist[r].catchWrote = ~hist[r].sentBeforeCatch
              /\ (status[r] = 500) = ~hist[r].sentBeforeCatch
              /\ hist[r].sentBeforeCatch => status[r] = 200
              /\ ~hist[r].storeCalled
        /\ hist[r].catchWrote => hist[r].failed

C12_Witness ==
    /\ \E r \in Reqs :
         /\ hist[r].failed /\ pc[r] = "done"
         /\ hist[r].sentBeforeCatch /\ ~hist[r].catchWrote /\ status[r] = 200
    /\ \E r \in Reqs :
         /\ hist[r].failed /\ pc[r] = "done"
         /\ ~hist[r].sentBeforeCatch /\ hist[r].catchWrote /\ status[r] = 500

\* ------------------------------------------------------------------------
\* Properties of the two surfaces.

\* Both surfaces have answered the request at hand.
BothAnswered ==
    exchange.sent /\ exchange.rpc # NoResponse /\ exchange.mcp # NoResponse

\* The answers there are to the request at hand.
Answers ==
    { a \in {exchange.rpc, exchange.mcp} : exchange.sent /\ a # NoResponse }

\* The names some family declares.
DeclaredNames ==
    { GetBlockToolDefinitions[i] : i \in DOMAIN GetBlockToolDefinitions }
        \cup { GetAccountToolDefinitions[i] : i \in DOMAIN GetAccountToolDefinitions }
        \cup { GetContractToolDefinitions[i] : i \in DOMAIN GetContractToolDefinitions }

\* The request at hand calls a tool by a name.
CallsTool ==
    /\ exchange.sent
    /\ exchange.request.method = "tools/call"
    /\ exchange.request.paramsPresent
    /\ exchange.request.name # Undefined

\* C13: a call of an operation name no family declares is answered, on
\* /rpc and by a session, with an error of code -32601 whose message
\* contains the name, and no backing-client method is invoked.
C13_UnknownToolIsMethodNotFound ==
    (CallsTool /\ exchange.request.name \notin DeclaredNames) =>
        \A a \in Answers :
            /\ a.kind = "error"
            /\ a.code = MethodNotFound
            /\ \E i \in DOMAIN a.message : a.message[i] = exchange.request.name
            /\ a.calls = << >>

\* C14: when the arguments of a declared operation fail its schema the
\* caller gets the parameters error -32602, not the internal error -32603
\* or HTTP 500, and the backing client is not called.
C14_BadArgumentsAreInvalidParams ==
    (/\ CallsTool
     /\ exchange.request.name \in DeclaredNames
     /\ SchemaRejects(exchange.request.arguments)) =>
        \A a \in Answers :
            /\ a.kind = "error"
            /\ a.code = InvalidParams
            /\ a.http # 500
            /\ a.calls = << >>

C16_UnknownMethodIs404 ==
    (exchange.sent /\ exchange.rpc # NoResponse) =>
        LET q == exchange.request
            a == exchange.rpc
        IN  /\ a.id = q.id
            /\ q.method \notin { "tools/list", "tools/call", "resources/list",
                                 "resources/templates/list", "resources/read" } =>
                  /\ a.http = 404
                  /\ a.kind = "error"
                  /\ a.code = MethodNotFound
            /\ a.http = 404 =>
                  q.method \notin { "tools/list", "tools/call", "resources/list",
                                    "resources/templates/list", "resources/read" }

C16_Witness ==
    /\ exchange.sent
    /\ exchange.request.method = "ping"
    /\ exchange.request.id = "req-2"
    /\ exchange.rpc.http = 404
    /\ exchange.rpc.id = "req-2"

\* C17: a POST /rpc request, whatever its method, its outcome and its
\* headers, leaves the session table as it is and creates no transport
\* and no server.
C17_RpcLeavesSessions ==
    [][ \A r \in Reqs :
          (pc[r] = "validating" /\ route[r] = "rpc" /\ pc'[r] # "validating") =>
              /\ sessions' = sessions
              /\ transportSid' = transportSid
              /\ uuidCount' = uuidCount
              /\ closeCalls' = closeCalls
              /\ session' = session
              /\ life' = life
              /\ pc'[r] = "done"
              /\ ~hist'[r].created /\ ~hist'[r].storeCalled /\ ~hist'[r].touched
      ]_vars

C17_Witness ==
    \E r \in Reqs :
        /\ hist[r].viaRpc /\ pc[r] = "done" /\ status[r] = 200
        /\ sessions # EmptyMap
        /\ \E p \in Reqs : p < r /\ hist[p].touched

\* The family that has the name, the first of block, account, contract;
\* "none" when no family has it.
FirstFamily(name) ==
    IF name \in DOMAIN BlockTools THEN "block"
    ELSE IF name \in DOMAIN AccountTools THEN "account"
    ELSE IF name \in DOMAIN ContractTools THEN "contract"
    ELSE "none"

\* C18: on both paths the families are tried in the order block, account,
\* contract; the answer is that of the first family whose handler returns
\* something, the families after it are not invoked, and both paths (and
\* so every repetition) pick the same family for a name.
C18_DispatchOrder ==
    CallsTool =>
        LET name == exchange.request.name
            f == FirstFamily(name)
            tried == CASE f = "block" -> << "block" >>
                       [] f = "account" -> << "block", "account" >>
                       [] OTHER -> << "block", "account", "contract" >>
        IN  /\ \A a \in Answers :
                 /\ a.invoked = tried
                 /\ \A i \in DOMAIN a.calls :
                        /\ f # "none"
                        /\ a.calls[i] = Families[f][name]
                 /\ a.kind = "result" => f # "none" /\ Len(a.calls) = 1
            /\ BothAnswered =>
                 /\ exchange.rpc.invoked = exchange.mcp.invoked
                 /\ exchange.rpc.calls = exchange.mcp.calls

C18_Witness ==
    /\ CallsTool /\ BothAnswered
    /\ exchange.request.name = "near.getAccount"
    /\ exchange.rpc.kind = "result" /\ exchange.mcp.kind = "result"
    /\ exchange.rpc.invoked = << "block", "account" >>
    /\ exchange.rpc.calls = << "getAccount" >>

\* How often name occurs in list.
Occurrences(list, name) == Cardinality({ i \in DOMAIN list : list[i] = name })

\* C19: tools/list on /rpc returns every name the block, account and
\* contract definition lists declare exactly once and nothing else, and a
\* session returns the same list.
C19_ToolsListComplete ==
    (exchange.sent /\ exchange.request.method = "tools/list") =>
        /\ \A a \in Answers :
             /\ a.kind = "result"
             /\ \A name \in DeclaredNames : Occurrences(a.tools, name) = 1
             /\ \A i \in DOMAIN a.tools : a.tools[i] \in DeclaredNames
             /\ \A name \in DeclaredNames : FirstFamily(name) # "none"
        /\ BothAnswered => exchange.rpc.tools = exchange.mcp.tools

C19_Witness ==
    /\ BothAnswered
    /\ exchange.request.method = "tools/list"
    /\ Len(exchange.rpc.tools) = Cardinality(DeclaredNames)
    /\ exchange.rpc.tools = exchange.mcp.tools

\* C20: near://account/X resolves to the account resource with X;
\* near://contract/Y/readme to the contract resource with Y, for every Y;
\* near://blocks/latest?count=N to the blocks resource with N, and with 10
\* without the parameter; both surfaces resolve a URI alike.
C20_UriParameters ==
    (exchange.sent /\ exchange.request.method = "resources/read"
        /\ exchange.request.paramsPresent) =>
        LET uri == exchange.request.uri IN
        /\ \A a \in Answers :
             /\ \A x \in AccountIds :
                    uri = AccountUri(x) =>
                        a.resolved = Resolved("account", x, NoCount)
             /\ \A y \in AccountIds :
                    uri = ContractUri(y) =>
                        a.resolved = Resolved("contract", y, NoCount)
             /\ \A n \in 0..MaxCount :
                    uri = BlocksUri(n) =>
                        a.resolved = Resolved("blocks", << >>, Number(n))
             /\ uri = BlocksPrefix =>
                    a.resolved = Resolved("blocks", << >>, Number(10))
        /\ BothAnswered => exchange.rpc.resolved = exchange.mcp.resolved

\* The URI is that of no static resource and of no URI template.
MatchesNoResource(uri) ==
    /\ ~StartsWith(uri, AccountPrefix)
    /\ ~StartsWith(uri, BlocksPrefix)
    /\ ~(StartsWith(uri, ContractPrefix) /\ EndsWith(uri, ReadmeSuffix))
    /\ uri # NetworkStatusUri

\* C21: reading a URI of no resource is answered, on /rpc and by a
\* session, with the error of code -32602 whose message contains the URI,
\* and the backing client is not called.
C21_UnknownUriIsInvalidParams ==
    (/\ exchange.sent
     /\ exchange.request.method = "resources/read"
     /\ exchange.request.paramsPresent
     /\ exchange.request.uri # NoUri
     /\ MatchesNoResource(exchange.request.uri)) =>
        \A a \in Answers :
            /\ a.kind = "error"
            /\ a.code = InvalidParams
            /\ \E i \in DOMAIN a.message : a.message[i] = exchange.request.uri
            /\ a.calls = << >>

\* ------------------------------------------------------------------------
\* Properties of the engines of the sessions.

\* C26: the on-closed callback is idempotent: a DELETE for an identifier
\* whose termination has been fully handled calls no server.close() and
\* does not change the table.
C26_RepeatedDeleteIsNoOp ==
    \A r \in Reqs :
        pc[r] = "closing" => closing[r] \notin life.terminated

\* C27: there is one engine per identifier: no request that carries an
\* identifier for which on-initialized has fired, and on-closed has not,
\* goes on to create a transport and a server.
C27_OneEnginePerId ==
    [][\A r \in Reqs :
          (pc[r] # "connecting" /\ pc'[r] = "connecting") =>
              sidHdr'[r] \notin (life.initialized \ life.closed)]_vars

\* C28: every engine the /mcp handler created is owned by an entry: once
\* the creating request has been fully handled (server.connect and
\* handleRequest resolved, storeSession returned) the engine is in the
\* table under its identifier or server.close() was called on it.
C28_EngineOwned ==
    \A r \in Reqs :
        (hist[r].created /\ hist[r].resolved /\ pc[r] = "done") =>
            \/ /\ transportSid[r] # Undefined
               /\ MapGet(sessions, transportSid[r]) = r
            \/ closeCalls[r] > 0

\* C29: under every interleaving of the termination requests for one
\* stored session, server.close() is called at most once on it.
C29_ClosedAtMostOnce ==
    \A e \in Reqs : closeCalls[e] <= 1

\* ------------------------------------------------------------------------
\* Properties of the observer, the health check, stdio mode and the
\* extraction of the credential.

\* C22: the observer is transparent: the calls the original write and end
\* receive on a wrapped response are, in order and content, the calls they
\* receive on a response that was not wrapped, every wrapped call returns
\* what the original returned, and below level trace the methods are not
\* replaced.
C22_ObserverTransparent ==
    /\ stream.delivered = stream.plain
    /\ stream.returned = stream.originalReturned
    /\ (stream.stage # "none" /\ stream.level # "trace") => ~stream.replaced

C22_Witness ==
    /\ stream.stage = "ended"
    /\ stream.replaced
    /\ Len(stream.delivered) = MaxWrites
    /\ stream.entries # << >>
    /\ \E i \in DOMAIN stream.delivered : stream.delivered[i].args # << >>
    /\ \E i \in DOMAIN stream.returned : stream.returned[i] = "false"

\* Observation: the lines of the chunks of the calls that start with
\* 'data: ' and go on with JSON.
RECURSIVE JsonLines(_)
JsonLines(lines) ==
    IF lines = << >> THEN 0
    ELSE (IF Head(lines).data /\ Head(lines).payload # "notjson" THEN 1 ELSE 0)
         + JsonLines(Tail(lines))

RECURSIVE JsonFrames(_)
JsonFrames(calls) ==
    IF calls = << >> THEN 0
    ELSE JsonLines(Head(calls).chunk.lines) + JsonFrames(Tail(calls))

\* C23: the observer never throws and never suppresses a write: whatever
\* the chunk and also when logger.trace fails, every call reaches the
\* original method once, with its chunk; a frame that does not parse leaves
\* no log entry and no error.
C23_ObserverNeverThrows ==
    /\ ~stream.threw
    /\ Len(stream.delivered) = Len(stream.plain)
    /\ \A i \in DOMAIN stream.delivered :
         /\ stream.delivered[i].chunk = stream.plain[i].chunk
         /\ stream.delivered[i].method = stream.plain[i].method
    /\ Len(stream.entries) <= JsonFrames(stream.plain)
    /\ stream.loggerFails => stream.entries = << >>

C23_Witness ==
    /\ stream.stage = "ended"
    /\ stream.replaced
    /\ stream.loggerFails
    /\ \E i, j \in DOMAIN stream.delivered :
         /\ stream.delivered[i].chunk.type = "string"
         /\ stream.delivered[i].chunk.lines =
                << Line(TRUE, "null"), Line(TRUE, "error") >>
         /\ stream.delivered[j].chunk.type = "absent"

\* C24: GET /health does not pass the gate and shows no credential: the
\* responses for two configurations that differ only in the value of a
\* non-empty apiKey are equal; the authority is not called for the request,
\* whatever credential it carries, and the body has the fields status,
\* network, rpcUrl and the boolean hasApiKey, and no other.
C24_HealthUngated ==
    /\ \A c1, c2 \in Configs :
         (/\ [c1 EXCEPT !.apiKey = Undefined] = [c2 EXCEPT !.apiKey = Undefined]
          /\ c1.apiKey \notin { Undefined, "" }
          /\ c2.apiKey \notin { Undefined, "" }) =>
              HealthCheckHandler(c1) = HealthCheckHandler(c2)
    /\ front.route = "health" =>
         /\ front.validateCalls = 0
         /\ front.sentKey = Undefined
         /\ front.stage \in { "arrived", "answered" }
         /\ front.stage = "answered" =>
              /\ front.status = 200
              /\ DOMAIN front.body = { "status", "network", "rpcUrl", "hasApiKey" }
              /\ front.body.status = "ok"
              /\ front.body.network = front.config.network
              /\ front.body.hasApiKey = (front.config.apiKey \notin { Undefined, "" })

C24_Witness ==
    /\ front.route = "health"
    /\ front.stage = "answered"
    /\ front.status = 200
    /\ front.header = NoHeader
    /\ front.query = Undefined
    /\ front.config.apiKey = "s1"
    /\ front.body.hasApiKey = TRUE

\* C25: in stdio mode the server is connected to its transport only after
\* a key was found in MCP_API_KEY or API_KEY and validateApiKey returned
\* true for it; without a key the process exits with code 1 and the
\* authority is not called; when the validation fails the process exits
\* with code 1 and the server is not started.
C25_StdioValidatedFirst ==
    /\ (stdio.connectCalls > 0 \/ stdio.stage \in { "connecting", "connected" }) =>
         /\ stdio.apiKey \notin { Undefined, "" }
         /\ stdio.apiKey \in { stdio.mcpApiKey, stdio.apiKeyEnv }
         /\ stdio.validateCalls = 1
         /\ AuthorityAccepts(stdio.reply)
    /\ (/\ stdio.stage # "none"
        /\ stdio.mcpApiKey \in { Undefined, "" }
        /\ stdio.apiKeyEnv \in { Undefined, "" }) =>
         /\ stdio.stage = "exited"
         /\ stdio.exitCode = 1
         /\ stdio.validateCalls = 0
         /\ stdio.connectCalls = 0
    /\ (/\ stdio.validateCalls > 0
        /\ stdio.stage # "validating"
        /\ ~AuthorityAccepts(stdio.reply)) =>
         /\ stdio.stage = "exited"
         /\ stdio.exitCode = 1
         /\ stdio.connectCalls = 0

C25_Witness ==
    /\ stdio.stage = "connected"
    /\ stdio.mcpApiKey = Undefined
    /\ stdio.apiKeyEnv = "k2"
    /\ stdio.apiKey = "k2"

\* C30: the Authorization header has precedence: a non-empty Bearer key is
\* the key sent to the authority, whatever the query says; the query's key
\* is sent only when there is no Bearer key; and every request that passed
\* the gate with the query's key left a log record of the fallback.
C30_HeaderPrecedence ==
    LET bearer == /\ front.header.present
                  /\ front.header.head = "Bearer "
                  /\ front.header.tail # ""
    IN  /\ (front.validateCalls > 0 /\ bearer) =>
             /\ front.sentKey = front.header.tail
             /\ ~front.usedQuery
        /\ (front.validateCalls > 0 /\ ~bearer) =>
             /\ front.sentKey = front.query
             /\ front.usedQuery
        /\ (front.stage = "passed" /\ front.usedQuery) =>
             front.records # << >>

====
